---- MODULE Spec2Model ----
(***************************************************************************)
(* Time tracker: the JSON-file server (src/unnamed/part_000 lines 144-627),*)
(* the storage.json server (src/unnamed/part_000 lines 1-143), the sqlite  *)
(* server (src/server.js) and the web client's timer                       *)
(* (src/public/script.js).                                                 *)
(*                                                                         *)
(* Encodings.  A timestamp is the integer number of milliseconds that      *)
(* Date.now() returns; new Date(ms).toISOString() keeps millisecond        *)
(* precision and new Date(iso) parses it back, so an ISO string is         *)
(* represented by the millisecond count it denotes.  null is NULL (-1, no  *)
(* timestamp is negative).  A JSON object is a function from the keys it   *)
(* has to their values: an undefined property is a key that is absent.     *)
(* Free-text and display fields no handler branches on (description,       *)
(* color, projectName, source) are left out of the records.                *)
(***************************************************************************)
EXTENDS Integers, Sequences, FiniteSets, TLC

VARIABLES
    now,        \* the wall clock, Date.now()
    resp,       \* the last request handled and the response it was sent
    projects,   \* data/projects.json
    entries,    \* data/entries.json
    nextId,     \* the ids generateId() has handed out so far
    storage,    \* data/storage.json of the storage.json server
    \* TimeTrackerApp, the web client
    timer,          \* this.timer: the handle setInterval returned last
    startTime,      \* this.startTime
    elapsed,        \* this.elapsed
    isRunning,      \* this.isRunning
    isPaused,       \* this.isPaused
    currentProject, \* this.currentProject
    selected,       \* projectSelect.value
    intervals,      \* the browser's active setInterval callbacks: [id, due]
    stops,          \* the stopTimer calls suspended at await saveTimeEntry()
    runSpan,        \* the wall-clock time spent Running since the last fresh start
    buttons,        \* the timer buttons that are displayed
    alerted,        \* the message of the last alert() the page showed
    commits,        \* the POSTs sent since the last fresh start
    \* the JSON-file server's handlers suspended at an await
    inflight,   \* the requests being handled, each with what it will write
    batch,      \* the requests that overlapped, and the store they started from
    reply,      \* the JSON the last GET request was answered with
    db          \* timetracker.db of the sqlite server

fileVars == <<projects, entries, nextId>>
legacyVars == <<storage>>
appVars == <<timer, startTime, elapsed, isRunning, isPaused, currentProject>>
clientVars == <<appVars, selected, intervals, stops, runSpan, buttons, alerted,
                commits>>
concVars == <<inflight, batch>>
otherVars == <<reply, db>>
vars == <<now, resp, fileVars, legacyVars, clientVars, concVars, otherVars>>

\* What the handlers of one program leave alone: the other programs' state.
notFile == <<legacyVars, clientVars, concVars, otherVars>>
notLegacy == <<fileVars, clientVars, concVars, otherVars>>
notClient == <<resp, projects, legacyVars, concVars, otherVars>>

\* ---------------------------------------------------------------- bounds

MaxTime == 1000
ClockStep == 500
MaxIds == 2
MaxLegacyEntries == 2
MaxLegacyProjects == 1
MaxClientTime == 2000
MaxIntervals == 3
MaxStops == 2
MaxInFlight == 2
StepsPerDay == 4
MaxViewSteps == 6
MaxSqlRows == 2
MaxWeekDays == 4

\* ------------------------------------------------------------- encodings

NULL == -1

MsPerSecond == 1000

Has(obj, k) == k \in DOMAIN obj

\* JavaScript's truthiness of obj[k] for the id and ISO-string properties:
\* undefined (absent) and null are falsy.
Truthy(obj, k) == Has(obj, k) /\ obj[k] # NULL

\* { ...a, ...b }
Spread(a, b) ==
    [k \in DOMAIN a \cup DOMAIN b |-> IF k \in DOMAIN b THEN b[k] ELSE a[k]]

\* Array.prototype.findIndex / find: the first of the indices that satisfy
\* the test, 0 when there is none.
FirstIndex(found) ==
    IF found = {} THEN 0 ELSE CHOOSE i \in found : \A j \in found : i <= j

\* Array.prototype.splice(i, 1)
RemoveAt(s, i) == [j \in 1..(Len(s) - 1) |-> IF j < i THEN s[j] ELSE s[j + 1]]

\* res.status(status).json(body) in answer to request op.  Of the body only
\* its shape is kept: "error" for {error}, "success" for {success: true, ...},
\* "failure" for {success: false, ...}, "data" for an entity, a list or a
\* {message}.
Response(op, status, body) == [op |-> op, status |-> status, body |-> body]

\* ----------------------------------------------- JSON-file server: data

DefaultProjects ==
    << [id |-> 1, name |-> <<"A">>],
       [id |-> 2, name |-> <<"B">>],
       [id |-> 3, name |-> <<"C">>] >>

IsRunning(entry) == entry.status = "running"

\* ------------------------------------------- JSON-file server: handlers

\* POST /api/time-entries: the entry the handler builds from the body.
NewEntry(body, id, t) ==
    [id |-> id,
     projectId |-> body.projectId,
     startTime |-> body.startTime,
     endTime |-> IF Truthy(body, "endTime") THEN body.endTime ELSE NULL,
     duration |-> IF Has(body, "duration") THEN body.duration ELSE 0,
     status |-> IF Truthy(body, "endTime") THEN "completed" ELSE "running",
     createdAt |-> t]

PostTimeEntryValid(body) == Truthy(body, "projectId") /\ Truthy(body, "startTime")

PostTimeEntryWrite(es, body, id, t) == Append(es, NewEntry(body, id, t))

\* PUT /api/time-entries/:id
PutTimeEntryIndex(es, id) == FirstIndex({i \in DOMAIN es : es[i].id = id})

\* PUT that merges the patch into the first entry, whatever the id.
PutTimeEntryWriteFirst(es, id, updates) ==
    [es EXCEPT ![1] = Spread(es[1], updates)]

\* The handler also stamps updatedAt, which nothing reads.
PutTimeEntryWrite(es, id, updates) ==
    LET i == PutTimeEntryIndex(es, id)
    IN  [es EXCEPT ![i] = Spread(es[i], updates)]

\* DELETE /api/time-entries/:id
DeleteTimeEntryWrite(es, id) == RemoveAt(es, PutTimeEntryIndex(es, id))

\* The seconds between two timestamps, as start-timer and stop-timer
\* compute a duration: Math.floor((end - start) / 1000).
ElapsedSeconds(from, to) == (to - from) \div MsPerSecond

RunningIndex(es) == FirstIndex({i \in DOMAIN es : IsRunning(es[i])})

\* The first running entry closed at t; es unchanged when none is running.
CloseRunning(es, t) ==
    LET i == RunningIndex(es)
    IN  IF i = 0 THEN es
        ELSE [es EXCEPT ![i] = [es[i] EXCEPT
                 !.endTime = t,
                 !.status = "completed",
                 !.duration = ElapsedSeconds(es[i].startTime, t)]]

\* POST /api/extension/start-timer
StartTimerEntry(body, id, t) ==
    [id |-> id,
     projectId |-> body.projectId,
     startTime |-> t,
     endTime |-> NULL,
     duration |-> 0,
     status |-> "running",
     createdAt |-> t]

StartTimerWrite(es, body, id, t) ==
    Append(CloseRunning(es, t), StartTimerEntry(body, id, t))

\* POST /api/extension/stop-timer
StopTimerWrite(es, t) == CloseRunning(es, t)

\* ---- calendar: Date's local-time methods in a time zone tz, the offset of
\* local time from UTC in milliseconds (no daylight saving change in range).

SecondsPerDay == 86400

MsPerDay == SecondsPerDay * MsPerSecond

DaysPerWeek == 7

\* getDay() of 1 January 1970, a Thursday.
EpochWeekday == 4

\* toDateString(): two instants give the same string exactly when they fall
\* on the same local calendar day; the day is numbered from 1 January 1970.
LocalDate(t, tz) == (t + tz) \div MsPerDay

\* getDay(): 0 is Sunday.
LocalWeekday(t, tz) == (LocalDate(t, tz) + EpochWeekday) % DaysPerWeek

\* weekStart: setDate(getDate() - getDay()), setHours(0, 0, 0, 0).
WeekStart(t, tz) == (LocalDate(t, tz) - LocalWeekday(t, tz)) * MsPerDay - tz

\* GET /api/time-entries: entries.sort((a, b) => b.createdAt - a.createdAt),
\* a stable sort, newest createdAt first.
RECURSIVE InsertByCreatedAt(_, _)
InsertByCreatedAt(e, sorted) ==
    IF sorted = <<>> THEN <<e>>
    ELSE IF Head(sorted).createdAt >= e.createdAt
         THEN <<Head(sorted)>> \o InsertByCreatedAt(e, Tail(sorted))
         ELSE <<e>> \o sorted

RECURSIVE SortByCreatedAt(_)
SortByCreatedAt(es) ==
    IF es = <<>> THEN <<>>
    ELSE InsertByCreatedAt(es[Len(es)], SortByCreatedAt(SubSeq(es, 1, Len(es) - 1)))

\* GET /api/stats
\* entries.filter(entry => new Date(entry.startTime).toDateString() === today)
RECURSIVE TodayEntries(_, _, _)
TodayEntries(es, t, tz) ==
    IF es = <<>> THEN <<>>
    ELSE (IF LocalDate(Head(es).startTime, tz) = LocalDate(t, tz)
          THEN <<Head(es)>> ELSE <<>>) \o TodayEntries(Tail(es), t, tz)

\* entries.filter(entry => new Date(entry.startTime) >= weekStart)
RECURSIVE WeekEntries(_, _, _)
WeekEntries(es, t, tz) ==
    IF es = <<>> THEN <<>>
    ELSE (IF Head(es).startTime >= WeekStart(t, tz)
          THEN <<Head(es)>> ELSE <<>>) \o WeekEntries(Tail(es), t, tz)

\* reduce((sum, entry) => sum + (entry.duration || 0), 0)
RECURSIVE SumDuration(_)
SumDuration(es) ==
    IF es = <<>> THEN 0
    ELSE (IF Truthy(Head(es), "duration") THEN Head(es).duration ELSE 0)
         + SumDuration(Tail(es))

\* The stats object; activeTimer is <<>> for null.
Stats(ps, es, t, tz) ==
    [op |-> "stats",
     totalProjects |-> Len(ps),
     totalEntries |-> Len(es),
     totalTimeToday |-> SumDuration(TodayEntries(es, t, tz)),
     totalTimeWeek |-> SumDuration(WeekEntries(es, t, tz)),
     entriesCount |-> Len(TodayEntries(es, t, tz)),
     activeTimer |-> IF RunningIndex(es) = 0 THEN <<>> ELSE <<es[RunningIndex(es)]>>,
     lastUpdated |-> t]

\* String.prototype.trim on a name, a sequence of characters.
RECURSIVE TrimStart(_)
TrimStart(s) == IF s # <<>> /\ Head(s) = " " THEN TrimStart(Tail(s)) ELSE s

RECURSIVE TrimEnd(_)
TrimEnd(s) ==
    IF s # <<>> /\ s[Len(s)] = " " THEN TrimEnd(SubSeq(s, 1, Len(s) - 1)) ELSE s

Trim(s) == TrimEnd(TrimStart(s))

\* POST /api/projects
PostProjectValid(body) == Has(body, "name") /\ body.name # <<>>

NewProject(body, id) == [id |-> id, name |-> Trim(body.name)]

PostProjectWrite(ps, body, id) == Append(ps, NewProject(body, id))

\* generateId(): Date.now() followed by nine random base-36 digits, taken
\* as a token that no earlier call returned.
GenerateId == nextId

CanGenerateId == nextId < Len(DefaultProjects) + 1 + MaxIds

\* ------------------------------------------------ storage.json server

\* What readData returns when data/storage.json does not exist.  The
\* currentSession is <<>> for null and <<session>> for a session object.
EmptyStorage == [projects |-> <<>>, timeEntries |-> <<>>, currentSession |-> <<>>]

\* The properties of a request body that are defined, under the handler's names.
Defined(body, keys) == [k \in keys \cap DOMAIN body |-> body[k]]

\* POST /api/time-entries
LegacyNewEntry(body, t) ==
    Spread([id |-> t, createdAt |-> t],
           Defined(body, {"projectId", "duration", "startTime", "endTime"}))

\* POST /api/extension/start-timer
LegacySession(body, t) == Spread([startTime |-> t], Defined(body, {"projectId"}))

\* POST /api/extension/stop-timer: the time entry made of the session.
LegacyTimeEntry(session, t) ==
    Spread([id |-> t, duration |-> t - session.startTime,
            startTime |-> session.startTime, endTime |-> t, createdAt |-> t],
           Defined(session, {"projectId"}))

\* ------------------------------------------------------ request inputs

ProjectIdInputs == {1, 2}

NameInputs == {<<>>, <<"F">>, <<" ", "F">>, <<"A">>}

ProjectBodies == {<<>>} \cup {[name |-> n] : n \in NameInputs}

\* Bodies of POST /api/time-entries sent at t: without a required property;
\* a running entry; a completed entry as the web client sends it; a completed
\* entry without a duration; one whose duration contradicts its timestamps.
EntryBodies(t) ==
    { <<>>,
      [projectId |-> 1],
      [startTime |-> t],
      [projectId |-> 1, startTime |-> t],
      [projectId |-> 1, startTime |-> 0, endTime |-> t, duration |-> t],
      [projectId |-> 1, startTime |-> 0, endTime |-> t],
      [projectId |-> 1, startTime |-> t, endTime |-> t, duration |-> -ClockStep] }

TimerBodies == {<<>>} \cup {[projectId |-> p] : p \in ProjectIdInputs}

\* The ids a request may name: those in the collection and one that is not.
NoSuchId == Len(DefaultProjects) + MaxIds + 1

IdInputs(s) == {s[i].id : i \in DOMAIN s} \cup {NoSuchId}

Updates(t) == { [endTime |-> t], [status |-> "running"] }

\* ------------------------------------- JSON-file server: whole requests

Advance ==
    /\ now + ClockStep <= MaxTime
    /\ now' = now + ClockStep
    /\ UNCHANGED <<resp, fileVars, legacyVars, clientVars, concVars, otherVars>>

PostProject(body) ==
    /\ IF ~PostProjectValid(body)
       THEN /\ resp' = Response("POST projects", 400, "error")
            /\ UNCHANGED fileVars
       ELSE /\ CanGenerateId
            /\ projects' = PostProjectWrite(projects, body, GenerateId)
            /\ nextId' = nextId + 1
            /\ resp' = Response("POST projects", 201, "data")
            /\ UNCHANGED entries
    /\ UNCHANGED <<now, notFile>>

DeleteProject(id) ==
    /\ LET i == FirstIndex({j \in DOMAIN projects : projects[j].id = id})
       IN  IF i = 0
           THEN /\ resp' = Response("DELETE projects", 404, "error")
                /\ UNCHANGED fileVars
           ELSE /\ projects' = RemoveAt(projects, i)
                /\ resp' = Response("DELETE projects", 200, "data")
                /\ UNCHANGED <<entries, nextId>>
    /\ UNCHANGED <<now, notFile>>

PostTimeEntry(body) ==
    /\ IF ~PostTimeEntryValid(body)
       THEN /\ resp' = Response("POST time-entries", 400, "error")
            /\ UNCHANGED fileVars
       ELSE /\ CanGenerateId
            /\ entries' = PostTimeEntryWrite(entries, body, GenerateId, now)
            /\ nextId' = nextId + 1
            /\ resp' = Response("POST time-entries", 201, "data")
            /\ UNCHANGED projects
    /\ UNCHANGED <<now, notFile>>

PutTimeEntry(id, updates) ==
    /\ IF PutTimeEntryIndex(entries, id) = 0
       THEN /\ resp' = Response("PUT time-entries", 404, "error")
            /\ UNCHANGED fileVars
       ELSE /\ entries' = PutTimeEntryWrite(entries, id, updates)
            /\ resp' = Response("PUT time-entries", 200, "data")
            /\ UNCHANGED <<projects, nextId>>
    /\ UNCHANGED <<now, notFile>>

DeleteTimeEntry(id) ==
    /\ IF PutTimeEntryIndex(entries, id) = 0
       THEN /\ resp' = Response("DELETE time-entries", 404, "error")
            /\ UNCHANGED fileVars
       ELSE /\ entries' = DeleteTimeEntryWrite(entries, id)
            /\ resp' = Response("DELETE time-entries", 200, "data")
            /\ UNCHANGED <<projects, nextId>>
    /\ UNCHANGED <<now, notFile>>

\* start-timer that closes the running entry before it looks at the body.
StartTimerCloseFirst(body) ==
    /\ IF ~Truthy(body, "projectId")
       THEN /\ resp' = Response("start-timer", 400, "error")
            /\ entries' = CloseRunning(entries, now)
            /\ UNCHANGED <<projects, nextId>>
       ELSE /\ CanGenerateId
            /\ entries' = StartTimerWrite(entries, body, GenerateId, now)
            /\ nextId' = nextId + 1
            /\ resp' = Response("start-timer", 200, "success")
            /\ UNCHANGED projects
    /\ UNCHANGED <<now, notFile>>

StartTimer(body) ==
    /\ IF ~Truthy(body, "projectId")
       THEN /\ resp' = Response("start-timer", 400, "error")
            /\ UNCHANGED fileVars
       ELSE /\ CanGenerateId
            /\ entries' = StartTimerWrite(entries, body, GenerateId, now)
            /\ nextId' = nextId + 1
            /\ resp' = Response("start-timer", 200, "success")
            /\ UNCHANGED projects
    /\ UNCHANGED <<now, notFile>>

StopTimer ==
    /\ IF RunningIndex(entries) = 0
       THEN /\ resp' = Response("stop-timer", 400, "error")
            /\ UNCHANGED fileVars
       ELSE /\ entries' = StopTimerWrite(entries, now)
            /\ resp' = Response("stop-timer", 200, "success")
            /\ UNCHANGED <<projects, nextId>>
    /\ UNCHANGED <<now, notFile>>

Reset ==
    /\ projects' = DefaultProjects
    /\ entries' = <<>>
    /\ resp' = Response("reset", 200, "data")
    /\ UNCHANGED <<now, nextId, notFile>>

\* readJSONFile(filePath, defaultData): the content of a file that exists
\* (every write is JSON.stringify's output, so it parses); a file that does
\* not exist, or that fs.readFile or JSON.parse fails on, is written with the
\* default data, which is returned.
ReadJSONFile(exists, content, defaultData) ==
    IF exists THEN content ELSE defaultData

\* startServer: initializeData, run when the process starts, on a data
\* directory that survived the last run (exists) or on an empty one.
InitializeData(exists) ==
    /\ projects' = ReadJSONFile(exists, projects, DefaultProjects)
    /\ entries' = ReadJSONFile(exists, entries, <<>>)
    /\ resp' = Response("startServer", 0, "data")
    /\ UNCHANGED <<now, nextId, notFile>>

\* ------------------------------------- JSON-file server: the read routes

StepMs == MsPerDay \div StepsPerDay

MaxViewTime == MaxViewSteps * StepMs

\* The time zones the server process may run in: UTC and one west of it.
TzOffsets == {0, 0 - StepMs}

\* Bodies of POST /api/time-entries sent at t: a running entry, a running
\* entry that carries a duration, and a completed, back-dated entry.
ViewBodies(t) ==
    { [projectId |-> 1, startTime |-> t],
      [projectId |-> 2, startTime |-> t, duration |-> StepMs],
      [projectId |-> 1, startTime |-> 0, endTime |-> t, duration |-> t] }

AdvanceHours ==
    /\ now + StepMs <= MaxViewTime
    /\ now' = now + StepMs
    /\ UNCHANGED <<resp, fileVars, legacyVars, clientVars, concVars, otherVars>>

GetTimeEntries ==
    /\ reply' = [op |-> "time-entries", list |-> SortByCreatedAt(entries)]
    /\ resp' = Response("GET time-entries", 200, "data")
    /\ UNCHANGED <<now, fileVars, legacyVars, clientVars, concVars, db>>

\* GET /api/time-entries when fs.readFile or JSON.parse throws on
\* entries.json: readJSONFile's catch writes the default data over the file
\* (writeOk), or that write throws too and the handler answers 500.
GetTimeEntriesFault(writeOk) ==
    /\ IF writeOk
       THEN /\ entries' = ReadJSONFile(FALSE, entries, <<>>)
            /\ reply' = [op |-> "time-entries", list |-> SortByCreatedAt(entries')]
            /\ resp' = Response("GET time-entries", 200, "data")
       ELSE /\ resp' = Response("GET time-entries", 500, "error")
            /\ UNCHANGED <<entries, reply>>
    /\ UNCHANGED <<now, projects, nextId, legacyVars, clientVars, concVars, db>>

GetStats(tz) ==
    /\ reply' = Stats(projects, entries, now, tz)
    /\ resp' = Response("GET stats", 200, "data")
    /\ UNCHANGED <<now, fileVars, legacyVars, clientVars, concVars, db>>

NextViews ==
    \/ AdvanceHours
    \/ \E body \in ViewBodies(now) : PostTimeEntry(body)
    \/ \E body \in {[projectId |-> 1]} : StartTimer(body)
    \/ StopTimer
    \/ GetTimeEntries
    \/ \E writeOk \in BOOLEAN : GetTimeEntriesFault(writeOk)
    \/ \E tz \in TzOffsets : GetStats(tz)

\* GET /api/extension/status: the body of the answer; activeTimer is null
\* (<<>>) or the first entry whose status is running.
ExtensionStatus(ps, es) ==
    [op |-> "status",
     projectCount |-> Len(ps),
     activeTimer |-> IF RunningIndex(es) = 0 THEN <<>> ELSE <<es[RunningIndex(es)]>>]

GetExtensionStatus ==
    /\ reply' = ExtensionStatus(projects, entries)
    /\ resp' = Response("GET status", 200, "data")
    /\ UNCHANGED <<now, fileVars, legacyVars, clientVars, concVars, db>>

\* The bodies of the entries the timer routes are explored with.
StatusBodies(t) ==
    { [projectId |-> 1, startTime |-> t],
      [projectId |-> 1, startTime |-> 0, endTime |-> t, duration |-> t] }

\* The extension's routes next to the entry routes that write the same file.
NextStatus ==
    \/ Advance
    \/ \E body \in StatusBodies(now) : PostTimeEntry(body)
    \/ \E id \in IdInputs(entries), updates \in Updates(now) :
            PutTimeEntry(id, updates)
    \/ \E body \in TimerBodies : StartTimer(body)
    \/ StopTimer
    \/ GetExtensionStatus

\* ------------------------------------------------------ sqlite server
\*
\* src/server.js.  A DATETIME column holds text; a value is represented by
\* the instant it denotes (UTC milliseconds) and, where the text's layout
\* matters, by the layout: "sql" for CURRENT_TIMESTAMP's 'YYYY-MM-DD
\* HH:MM:SS', "iso" for toISOString's 'YYYY-MM-DDTHH:MM:SS.sssZ'.  SQL NULL is
\* NULL.  The three statements of a handler run without another request's
\* statement in between.

SqlDefaultProjects ==
    << [id |-> 1, name |-> <<"G">>],
       [id |-> 2, name |-> <<"M">>],
       [id |-> 3, name |-> <<"D">>],
       [id |-> 4, name |-> <<"R">>] >>

\* The database once db.serialize has run on a new file; lastID is the
\* AUTOINCREMENT sequence of time_entries.
SqlInitialDb ==
    [projects |-> SqlDefaultProjects, time_entries |-> <<>>, lastID |-> 0]

\* CURRENT_TIMESTAMP: UTC, whole seconds.
CurrentTimestamp(t) == (t \div MsPerSecond) * MsPerSecond

\* date(x), and new Date().toISOString().split('T')[0]: the UTC calendar day.
UtcDate(t) == t \div MsPerDay

\* CAST((julianday(to) - julianday(from)) * 86400 AS INTEGER): the whole
\* seconds, truncated toward zero (the instants of this model are exact as
\* julian day numbers).
JulianSeconds(from, to) ==
    IF to >= from THEN (to - from) \div MsPerSecond
    ELSE 0 - ((from - to) \div MsPerSecond)

SqlOpen(row) == row.end_time = NULL

\* UPDATE time_entries SET end_time = CURRENT_TIMESTAMP, duration = ...
\* WHERE end_time IS NULL
SqlCloseOpen(rows, t) ==
    [i \in DOMAIN rows |->
        IF SqlOpen(rows[i])
        THEN [rows[i] EXCEPT
                 !.end_time = CurrentTimestamp(t),
                 !.duration = JulianSeconds(rows[i].start_time, CurrentTimestamp(t))]
        ELSE rows[i]]

SqlInsert(d, row) ==
    [d EXCEPT !.time_entries = Append(@, row @@ [id |-> d.lastID + 1]),
              !.lastID = @ + 1]

SqlValue(body, k) == IF Has(body, k) THEN body[k] ELSE NULL

\* The text start_time is less than the text of the instant w in the "iso"
\* layout: the dates decide; on one date a space sorts before a 'T'.
TextBefore(row, w) ==
    \/ UtcDate(row.start_time) < UtcDate(w)
    \/ /\ UtcDate(row.start_time) = UtcDate(w)
       /\ row.layout = "sql" \/ row.start_time < w

\* SUM(duration) over the rows at the indices in sel: NULL values are
\* skipped, and the sum of no value is NULL.
RECURSIVE SqlSumFrom(_, _, _)
SqlSumFrom(rows, sel, i) ==
    IF i > Len(rows) THEN NULL
    ELSE LET rest == SqlSumFrom(rows, sel, i + 1)
         IN  IF i \in sel /\ rows[i].duration # NULL
             THEN rows[i].duration + (IF rest = NULL THEN 0 ELSE rest)
             ELSE rest

SqlSum(rows, sel) == SqlSumFrom(rows, sel, 1)

\* WHERE date(start_time) = today
SqlToday(rows, t) == {i \in DOMAIN rows : UtcDate(rows[i].start_time) = UtcDate(t)}

\* weekStart.setDate(weekStart.getDate() - weekStart.getDay())
SqlWeekStart(t, tz) == t - LocalWeekday(t, tz) * MsPerDay

\* WHERE start_time >= weekStart.toISOString()
SqlWeek(rows, t, tz) ==
    {i \in DOMAIN rows : ~TextBefore(rows[i], SqlWeekStart(t, tz))}

\* The groups of: time_entries JOIN projects WHERE date(start_time) = today
\* GROUP BY p.id, each with its SUM(duration).
BreakdownRows(d, t) ==
    { [name |-> d.projects[p].name,
       total_time |-> SqlSum(d.time_entries,
           {i \in SqlToday(d.time_entries, t) :
               d.time_entries[i].project_id = d.projects[p].id})] :
      p \in {q \in DOMAIN d.projects :
                \E i \in SqlToday(d.time_entries, t) :
                    d.time_entries[i].project_id = d.projects[q].id} }

\* ORDER BY total_time DESC: NULL sorts last, and rows of one total come in
\* an order SQL does not fix.
Breakdowns(d, t) ==
    LET rows == BreakdownRows(d, t)
        n == Cardinality(rows)
    IN  { f \in [1..n -> rows] :
            /\ \A i, j \in 1..n : i # j => f[i] # f[j]
            /\ \A i, j \in 1..n : i < j => f[i].total_time >= f[j].total_time }

Or0(x) == IF x = NULL THEN 0 ELSE x

SqlBodies(t) ==
    { <<>>,
      [project_id |-> 2, start_time |-> t],
      [project_id |-> 2, start_time |-> 0, end_time |-> t,
       duration |-> t \div MsPerSecond] }

SqlPostTimeEntry(body) ==
    /\ IF ~(Truthy(body, "project_id") /\ Truthy(body, "start_time"))
       THEN /\ resp' = Response("POST time-entries", 400, "error")
            /\ UNCHANGED db
       ELSE /\ Len(db.time_entries) < MaxSqlRows
            /\ db' = SqlInsert(db,
                   [project_id |-> body.project_id,
                    start_time |-> body.start_time, layout |-> "iso",
                    end_time |-> SqlValue(body, "end_time"),
                    duration |-> SqlValue(body, "duration")])
            /\ resp' = Response("POST time-entries", 201, "data")
    /\ UNCHANGED <<now, fileVars, legacyVars, clientVars, concVars, reply>>

SqlStartTimer(body) ==
    /\ IF ~Truthy(body, "projectId")
       THEN /\ resp' = Response("start-timer", 400, "error")
            /\ UNCHANGED db
       ELSE /\ Len(db.time_entries) < MaxSqlRows
            /\ db' = SqlInsert(
                   [db EXCEPT !.time_entries = SqlCloseOpen(@, now)],
                   [project_id |-> body.projectId,
                    start_time |-> CurrentTimestamp(now), layout |-> "sql",
                    end_time |-> NULL, duration |-> NULL])
            /\ resp' = Response("start-timer", 200, "success")
    /\ UNCHANGED <<now, fileVars, legacyVars, clientVars, concVars, reply>>

SqlStopTimer ==
    /\ IF \A i \in DOMAIN db.time_entries : ~SqlOpen(db.time_entries[i])
       THEN /\ resp' = Response("stop-timer", 400, "error")
            /\ UNCHANGED db
       ELSE /\ db' = [db EXCEPT !.time_entries = SqlCloseOpen(@, now)]
            /\ resp' = Response("stop-timer", 200, "success")
    /\ UNCHANGED <<now, fileVars, legacyVars, clientVars, concVars, reply>>

SqlGetStats(tz) ==
    /\ \E breakdown \in Breakdowns(db, now) :
           reply' = [op |-> "stats",
                     today |-> Or0(SqlSum(db.time_entries,
                                          SqlToday(db.time_entries, now))),
                     week |-> Or0(SqlSum(db.time_entries,
                                         SqlWeek(db.time_entries, now, tz))),
                     projectBreakdown |-> breakdown]
    /\ resp' = Response("GET stats", 200, "data")
    /\ UNCHANGED <<now, fileVars, legacyVars, clientVars, concVars, db>>

NextSql ==
    \/ AdvanceHours
    \/ \E body \in SqlBodies(now) : SqlPostTimeEntry(body)
    \/ \E body \in TimerBodies : SqlStartTimer(body)
    \/ SqlStopTimer
    \/ \E tz \in TzOffsets : SqlGetStats(tz)

\* The sqlite server's timer and stats routes over several days: the clock
\* moves by a quarter of a day or by a whole day, from Thursday 1 January
\* 1970 across the Sunday that follows.
AdvanceWeek(step) ==
    /\ now + step <= MaxWeekDays * MsPerDay
    /\ now' = now + step
    /\ UNCHANGED <<resp, fileVars, legacyVars, clientVars, concVars, otherVars>>

NextWeek ==
    \/ \E step \in {StepMs, MsPerDay} : AdvanceWeek(step)
    \/ \E body \in {[projectId |-> 1]} : SqlStartTimer(body)
    \/ SqlStopTimer
    \/ \E tz \in TzOffsets : SqlGetStats(tz)

\* --------------------------------- storage.json server: whole requests

LegacyPostProject(body) ==
    /\ Len(storage.projects) < MaxLegacyProjects
    /\ storage' = [storage EXCEPT !.projects =
           Append(@, Spread([id |-> now, createdAt |-> now], Defined(body, {"name"})))]
    /\ resp' = Response("POST projects", 200, "data")
    /\ UNCHANGED <<now, notLegacy>>

LegacyPostTimeEntry(body) ==
    /\ Len(storage.timeEntries) < MaxLegacyEntries
    /\ storage' = [storage EXCEPT !.timeEntries = Append(@, LegacyNewEntry(body, now))]
    /\ resp' = Response("POST time-entries", 200, "data")
    /\ UNCHANGED <<now, notLegacy>>

\* readData: the parsed file, or the empty store when reading it threw.
ReadData(ok) == IF ok THEN storage ELSE EmptyStorage

\* writeData: the file after the call; an error is logged and swallowed.
WriteData(data, ok) == IF ok THEN data ELSE storage

\* POST /api/time-entries during which fs.readFileSync or fs.writeFileSync
\* throws.
LegacyPostTimeEntryFault(body, readOk, writeOk) ==
    /\ ~(readOk /\ writeOk)
    /\ Len(storage.timeEntries) < MaxLegacyEntries
    /\ storage' = WriteData([ReadData(readOk) EXCEPT !.timeEntries =
                                Append(@, LegacyNewEntry(body, now))], writeOk)
    /\ resp' = Response("POST time-entries", 200, "data")
    /\ UNCHANGED <<now, notLegacy>>

LegacyStatus ==
    /\ resp' = Response("status", 200, "data")
    /\ UNCHANGED <<now, legacyVars, notLegacy>>

LegacyStartTimer(body) ==
    /\ storage' = [storage EXCEPT !.currentSession = <<LegacySession(body, now)>>]
    /\ resp' = Response("start-timer", 200, "success")
    /\ UNCHANGED <<now, notLegacy>>

LegacyStopTimer ==
    /\ IF storage.currentSession = <<>>
       THEN /\ resp' = Response("stop-timer", 200, "failure")
            /\ UNCHANGED legacyVars
       ELSE /\ Len(storage.timeEntries) < MaxLegacyEntries
            /\ storage' = [storage EXCEPT
                   !.timeEntries =
                       Append(@, LegacyTimeEntry(storage.currentSession[1], now)),
                   !.currentSession = <<>>]
            /\ resp' = Response("stop-timer", 200, "success")
    /\ UNCHANGED <<now, notLegacy>>

NextLegacy ==
    \/ Advance
    \/ \E body \in {<<>>, [name |-> <<"F">>]} : LegacyPostProject(body)
    \/ \E body \in EntryBodies(now) : LegacyPostTimeEntry(body)
    \/ \E body \in {[projectId |-> 1, startTime |-> now]}, readOk, writeOk \in BOOLEAN :
           LegacyPostTimeEntryFault(body, readOk, writeOk)
    \/ LegacyStatus
    \/ \E body \in TimerBodies : LegacyStartTimer(body)
    \/ LegacyStopTimer

\* ------------------------- JSON-file server: handlers step by step
\*
\* An async handler runs to its first await, and each continuation runs when
\* the awaited file operation is done; other handlers run in between.  A
\* handler's readJSONFile and what it computes from the array read are one
\* step (begin), the writeJSONFile of the computed array is the next (write).

\* The array a handler writes, computed from the array es it read.
HandlerWrite(r, es) ==
    CASE r.op = "POST time-entries" -> PostTimeEntryWrite(es, r.body, r.id, r.t)
      [] r.op = "start-timer" -> StartTimerWrite(es, r.body, r.id, r.t)

Store == [projects |-> projects, entries |-> entries]

\* The requests that overlap: a request that arrives while none is being
\* handled starts a new batch from the store as it is.
Joined(r) ==
    IF inflight = {}
    THEN [base |-> Store, reqs |-> <<r>>]
    ELSE [batch EXCEPT !.reqs = Append(@, r)]

Outcome(rid, outcome) == [batch EXCEPT !.reqs[rid].outcome = outcome]

ConcBegin(op, body) ==
    /\ Cardinality(inflight) < MaxInFlight
    /\ Len(Joined(<<>>).reqs) <= MaxInFlight
    /\ CanGenerateId
    /\ LET r == [op |-> op, body |-> body, id |-> GenerateId, t |-> now]
           b == Joined(r @@ [outcome |-> "pending"])
       IN  /\ batch' = b
           /\ inflight' = inflight \cup
                  {r @@ [rid |-> Len(b.reqs), write |-> HandlerWrite(r, entries)]}
    /\ nextId' = nextId + 1
    /\ UNCHANGED <<now, resp, projects, entries, legacyVars, clientVars, otherVars>>

\* writeJSONFile(ENTRIES_FILE, entries) is done (ok), or it threw.
ConcWrite(r, ok) ==
    /\ r \in inflight
    /\ r.op # "reset"
    /\ IF ok
       THEN /\ entries' = r.write
            /\ resp' = Response(r.op, IF r.op = "start-timer" THEN 200 ELSE 201,
                                 IF r.op = "start-timer" THEN "success" ELSE "data")
       ELSE /\ resp' = Response(r.op, 500, "error")
            /\ UNCHANGED entries
    /\ inflight' = inflight \ {r}
    /\ batch' = Outcome(r.rid, IF ok THEN "ok" ELSE "failed")
    /\ UNCHANGED <<now, projects, nextId, legacyVars, clientVars, otherVars>>

\* POST /api/reset up to its first await.
ConcResetBegin ==
    /\ Cardinality(inflight) < MaxInFlight
    /\ Len(Joined(<<>>).reqs) <= MaxInFlight
    /\ LET b == Joined([op |-> "reset", outcome |-> "pending"])
       IN  /\ batch' = b
           /\ inflight' = inflight \cup
                  {[op |-> "reset", rid |-> Len(b.reqs), pc |-> "projects"]}
    /\ UNCHANGED <<now, resp, fileVars, legacyVars, clientVars, otherVars>>

\* writeJSONFile(PROJECTS_FILE, defaultProjects) is done, or it threw.
ConcResetProjects(r, ok) ==
    /\ r \in inflight
    /\ r.op = "reset" /\ r.pc = "projects"
    /\ IF ok
       THEN /\ projects' = DefaultProjects
            /\ inflight' = (inflight \ {r}) \cup {[r EXCEPT !.pc = "entries"]}
            /\ UNCHANGED <<resp, batch>>
       ELSE /\ resp' = Response("reset", 500, "error")
            /\ inflight' = inflight \ {r}
            /\ batch' = Outcome(r.rid, "failed")
            /\ UNCHANGED projects
    /\ UNCHANGED <<now, entries, nextId, legacyVars, clientVars, otherVars>>

\* writeJSONFile(ENTRIES_FILE, []) is done, or it threw.
ConcResetEntries(r, ok) ==
    /\ r \in inflight
    /\ r.op = "reset" /\ r.pc = "entries"
    /\ IF ok
       THEN /\ entries' = <<>>
            /\ resp' = Response("reset", 200, "data")
       ELSE /\ resp' = Response("reset", 500, "error")
            /\ UNCHANGED entries
    /\ inflight' = inflight \ {r}
    /\ batch' = Outcome(r.rid, IF ok THEN "ok" ELSE "failed")
    /\ UNCHANGED <<now, projects, nextId, legacyVars, clientVars, otherVars>>

\* A POST /api/projects handled while no other request is.
ConcPostProject(body) ==
    /\ inflight = {}
    /\ PostProjectValid(body)
    /\ PostProject(body)

ConcBodies(op, t) ==
    IF op = "start-timer" THEN {[projectId |-> 1]}
    ELSE {[projectId |-> 1, startTime |-> t],
          [projectId |-> 1, startTime |-> 0, endTime |-> t, duration |-> t]}

NextConc ==
    \/ Advance
    \/ \E op \in {"POST time-entries", "start-timer"} :
           \E body \in ConcBodies(op, now) : ConcBegin(op, body)
    \/ \E r \in inflight, ok \in BOOLEAN : ConcWrite(r, ok)
    \/ ConcResetBegin
    \/ \E r \in inflight, ok \in BOOLEAN : ConcResetProjects(r, ok)
    \/ \E r \in inflight, ok \in BOOLEAN : ConcResetEntries(r, ok)
    \/ \E body \in {[name |-> <<"F">>]} : ConcPostProject(body)

\* ------------------------------------------------------- the web client
\*
\* The user acts through the start, pause and stop buttons, and only through
\* a button that is displayed.  The page's markup is not among the sources:
\* before the first updateButtonStates the display is taken to be the one
\* updateButtonStates gives an idle timer.

TickPeriod == 1000

\* Date.now() - this.startTime: in the subtraction null counts as 0.
SinceStart(t) == t - (IF startTime = NULL THEN 0 ELSE startTime)

\* setInterval(callback, 1000) called at t: the new handle and callback.
NewHandle == IF timer = NULL THEN 1 ELSE timer + 1

SetInterval(t) == intervals \cup {[id |-> NewHandle, due |-> t + TickPeriod]}

\* clearInterval(this.timer)
ClearInterval == {i \in intervals : i.id # timer}

\* updateButtonStates: the buttons it leaves displayed.
ButtonStates(running, paused) ==
    IF running THEN {"pause", "stop"}
    ELSE IF paused THEN {"start", "stop"}
    ELSE {"start"}

\* The user picks an option of the project select ("" is NULL).
selectProject(p) ==
    /\ selected' = p
    /\ UNCHANGED <<now, appVars, intervals, stops, runSpan, buttons, alerted,
                   commits, entries, nextId, notClient>>

\* startTimer with a resume that forgets the frozen elapsed time.
startTimerRestart ==
    /\ "start" \in buttons
    /\ selected # NULL
    /\ NewHandle <= MaxIntervals
    /\ IF isPaused
       THEN /\ startTime' = now
            /\ isPaused' = FALSE
            /\ UNCHANGED <<elapsed, currentProject, runSpan, commits>>
       ELSE /\ startTime' = now
            /\ elapsed' = 0
            /\ currentProject' = selected
            /\ runSpan' = 0
            /\ commits' = 0
            /\ UNCHANGED isPaused
    /\ isRunning' = TRUE
    /\ timer' = NewHandle
    /\ intervals' = SetInterval(now)
    /\ buttons' = ButtonStates(TRUE, isPaused')
    /\ UNCHANGED <<now, selected, stops, alerted, entries, nextId, notClient>>

\* startTimer without its check of the project select.
startTimerUnchecked ==
    /\ "start" \in buttons
    /\ NewHandle <= MaxIntervals
    /\ IF isPaused
       THEN /\ startTime' = now - elapsed
            /\ isPaused' = FALSE
            /\ UNCHANGED <<elapsed, currentProject, runSpan, commits>>
       ELSE /\ startTime' = now
            /\ elapsed' = 0
            /\ currentProject' = selected
            /\ runSpan' = 0
            /\ commits' = 0
            /\ UNCHANGED isPaused
    /\ isRunning' = TRUE
    /\ timer' = NewHandle
    /\ intervals' = SetInterval(now)
    /\ buttons' = ButtonStates(TRUE, isPaused')
    /\ UNCHANGED <<now, selected, stops, alerted, entries, nextId, notClient>>

\* TimeTrackerApp.startTimer past its check of the project select, whatever
\* the display.
startTimerCall ==
    /\ selected # NULL
    /\ NewHandle <= MaxIntervals
    /\ IF isPaused
       THEN /\ startTime' = now - elapsed
            /\ isPaused' = FALSE
            /\ UNCHANGED <<elapsed, currentProject, runSpan, commits>>
       ELSE /\ startTime' = now
            /\ elapsed' = 0
            /\ currentProject' = selected
            /\ runSpan' = 0
            /\ commits' = 0
            /\ UNCHANGED isPaused
    /\ isRunning' = TRUE
    /\ timer' = NewHandle
    /\ intervals' = SetInterval(now)
    /\ buttons' = ButtonStates(TRUE, isPaused')
    /\ UNCHANGED <<now, selected, stops, alerted, entries, nextId, notClient>>

\* A press of the start button.
startTimer ==
    /\ "start" \in buttons
    /\ startTimerCall

\* startTimer with no project selected: the alert, and nothing else.
startTimerRejected ==
    /\ "start" \in buttons
    /\ selected = NULL
    /\ alerted' = "Please select a project first!"
    /\ UNCHANGED <<now, appVars, selected, intervals, stops, runSpan, buttons,
                   commits, entries, nextId, notClient>>

\* One firing of a setInterval callback.
tick(i) ==
    /\ i \in intervals
    /\ i.due <= now
    /\ elapsed' = SinceStart(now)
    /\ intervals' = (intervals \ {i}) \cup {[i EXCEPT !.due = @ + TickPeriod]}
    /\ UNCHANGED <<now, timer, startTime, isRunning, isPaused, currentProject,
                   selected, stops, runSpan, buttons, alerted, commits, entries,
                   nextId, notClient>>

\* TimeTrackerApp.pauseTimer, whatever the display.
pauseTimerCall ==
    /\ isRunning' = FALSE
    /\ isPaused' = TRUE
    /\ intervals' = ClearInterval
    /\ buttons' = ButtonStates(FALSE, TRUE)
    /\ UNCHANGED <<now, timer, startTime, elapsed, currentProject, selected,
                   stops, runSpan, alerted, commits, entries, nextId, notClient>>

\* A press of the pause button.
pauseTimer ==
    /\ "pause" \in buttons
    /\ pauseTimerCall

\* saveTimeEntry: the body of the POST /api/time-entries it sends at t.
\* new Date(null) is the epoch.
TimeEntryBody(t) ==
    [projectId |-> currentProject,
     duration |-> elapsed,
     startTime |-> IF startTime = NULL THEN 0 ELSE startTime,
     endTime |-> t]

\* TimeTrackerApp.stopTimer up to its await, whatever the display: with
\* nothing elapsed it runs to its end.
stopTimerCall ==
    /\ isRunning' = FALSE
    /\ isPaused' = FALSE
    /\ intervals' = ClearInterval
    /\ IF elapsed > 0
       THEN /\ Len(stops) < MaxStops
            /\ stops' = Append(stops, TimeEntryBody(now))
            /\ commits' = commits + 1
            /\ UNCHANGED <<elapsed, startTime, currentProject, buttons>>
       ELSE /\ elapsed' = 0
            /\ startTime' = NULL
            /\ currentProject' = NULL
            /\ buttons' = ButtonStates(FALSE, FALSE)
            /\ UNCHANGED <<stops, commits>>
    /\ UNCHANGED <<now, timer, selected, runSpan, alerted, entries, nextId,
                   notClient>>

\* A press of the stop button.
stopTimer ==
    /\ "stop" \in buttons
    /\ stopTimerCall

\* The rest of the oldest suspended stopTimer: the server has answered the
\* POST (ok: it handled it; otherwise the request failed on the way), and
\* resetTimer runs either way.
stopTimerResume(ok) ==
    /\ stops # <<>>
    /\ IF ok /\ PostTimeEntryValid(Head(stops))
       THEN /\ CanGenerateId
            /\ entries' = PostTimeEntryWrite(entries, Head(stops), GenerateId, now)
            /\ nextId' = nextId + 1
            /\ UNCHANGED alerted
       ELSE /\ alerted' = "Failed to save time entry"
            /\ UNCHANGED <<entries, nextId>>
    /\ stops' = Tail(stops)
    /\ elapsed' = 0
    /\ startTime' = NULL
    /\ currentProject' = NULL
    /\ buttons' = ButtonStates(isRunning, isPaused)
    /\ UNCHANGED <<now, timer, isRunning, isPaused, selected, intervals, runSpan,
                   commits, notClient>>

\* Time passes; a callback that is due fires before it does.
clientAdvance ==
    /\ now + ClockStep <= MaxClientTime
    /\ \A i \in intervals : i.due > now
    /\ now' = now + ClockStep
    /\ runSpan' = IF isRunning THEN runSpan + ClockStep ELSE runSpan
    /\ UNCHANGED <<appVars, selected, intervals, stops, buttons, alerted, commits,
                   entries, nextId, notClient>>

NextClient ==
    \/ clientAdvance
    \/ \E p \in {NULL} \cup ProjectIdInputs : selectProject(p)
    \/ startTimer
    \/ startTimerRejected
    \/ \E i \in intervals : tick(i)
    \/ pauseTimer
    \/ stopTimer
    \/ \E ok \in BOOLEAN : stopTimerResume(ok)

\* The page's global functions startTimer, pauseTimer and stopTimer called
\* whatever the display shows: the methods themselves look at no button.
NextCalls ==
    \/ clientAdvance
    \/ \E p \in {NULL} \cup ProjectIdInputs : selectProject(p)
    \/ startTimerCall
    \/ \E i \in intervals : tick(i)
    \/ pauseTimerCall
    \/ stopTimerCall
    \/ \E ok \in BOOLEAN : stopTimerResume(ok)

\* The state once initializeData has run on an empty data directory.
Init ==
    /\ now = 0
    /\ resp = Response("none", 0, "data")
    /\ projects = DefaultProjects
    /\ entries = <<>>
    /\ nextId = Len(DefaultProjects) + 1
    /\ storage = EmptyStorage
    /\ timer = NULL
    /\ startTime = NULL
    /\ elapsed = 0
    /\ isRunning = FALSE
    /\ isPaused = FALSE
    /\ currentProject = NULL
    /\ selected = NULL
    /\ intervals = {}
    /\ stops = <<>>
    /\ runSpan = 0
    /\ buttons = ButtonStates(FALSE, FALSE)
    /\ alerted = "none"
    /\ commits = 0
    /\ inflight = {}
    /\ batch = [base |-> [projects |-> DefaultProjects, entries |-> <<>>],
                reqs |-> <<>>]
    /\ reply = [op |-> "none"]
    /\ db = SqlInitialDb

\* The project handlers touch data/projects.json alone and the entry handlers
\* data/entries.json alone, so each family is explored on its own.
NextProjects ==
    \/ Advance
    \/ \E body \in ProjectBodies : PostProject(body)
    \/ \E id \in IdInputs(projects) : DeleteProject(id)
    \/ Reset
    \/ \E exists \in BOOLEAN : InitializeData(exists)

SpecProjects == Init /\ [][NextProjects]_vars

Next ==
    \/ Advance
    \/ \E body \in EntryBodies(now) : PostTimeEntry(body)
    \/ \E id \in IdInputs(entries), updates \in Updates(now) :
            PutTimeEntry(id, updates)
    \/ \E id \in IdInputs(entries) : DeleteTimeEntry(id)
    \/ \E body \in TimerBodies : StartTimer(body)
    \/ StopTimer
    \/ Reset

Spec == Init /\ [][Next]_vars

SpecLegacy == Init /\ [][NextLegacy]_vars

SpecViews == Init /\ [][NextViews]_vars

SpecSql == Init /\ [][NextSql]_vars

SpecWeek == Init /\ [][NextWeek]_vars

SpecStatus == Init /\ [][NextStatus]_vars

SpecCalls == Init /\ [][NextCalls]_vars

SpecClient == Init /\ [][NextClient]_vars

SpecConc == Init /\ [][NextConc]_vars

\* The client with what its environment guarantees: a request that was sent
\* is answered or fails (the suspended stopTimer goes on), and a setInterval
\* callback that is due fires.  The user owes no action.
SpecClientLive ==
    /\ Init
    /\ [][NextClient]_vars
    /\ WF_vars(\E ok \in BOOLEAN : stopTimerResume(ok))
    /\ WF_vars(\E i \in intervals : tick(i))

\* ------------------------------------------------- claims: the servers

RunningEntries(es) == {i \in DOMAIN es : IsRunning(es[i])}

OpenEntries(es) == {i \in DOMAIN es : es[i].endTime = NULL}

\* C1: in every reachable state of the JSON-file server's store, at most one
\* time entry is running (status = running, that is, endTime absent).
C1_AtMostOneRunning ==
    /\ Cardinality(RunningEntries(entries)) <= 1
    /\ Cardinality(OpenEntries(entries)) <= 1

\* A time entry the storage.json server keeps for the session that was opened
\* at startTime: closed, with a duration that is not negative.
LegacyClosedEntryFor(st, started) ==
    \E i \in DOMAIN st.timeEntries :
        LET e == st.timeEntries[i]
        IN  /\ Has(e, "startTime") /\ e.startTime = started
            /\ Has(e, "endTime") /\ e.endTime # NULL
            /\ Has(e, "duration") /\ e.duration >= 0

\* C2: a start-timer that directly follows a start-timer (both with a
\* projectId) leaves exactly one running timer, and the timer the first call
\* opened is kept in the store as a closed entry with an endTime and a
\* duration >= 0.
C2_StartTwiceKeepsFirst ==
    [][(/\ resp.op = "start-timer" /\ resp.status = 200
        /\ storage.currentSession # <<>>
        /\ Has(storage.currentSession[1], "projectId")
        /\ \E body \in TimerBodies :
               Has(body, "projectId") /\ LegacyStartTimer(body))
       => /\ Len(storage'.currentSession) = 1
          /\ LegacyClosedEntryFor(storage', storage.currentSession[1].startTime)]_vars

\* C3: stop-timer with no timer running is answered 400 with an error body,
\* not with a success status, and leaves the store as it was.
C3_StopWithoutTimerFails ==
    [][(storage.currentSession = <<>> /\ LegacyStopTimer)
       => /\ resp'.status = 400
          /\ resp'.body = "error"
          /\ storage' = storage]_vars

ProjectNames(ps) == {ps[i].name : i \in DOMAIN ps}

NamesUnique(ps) == \A i, j \in DOMAIN ps : ps[i].name = ps[j].name => i = j

\* C4: project names are unique in every reachable state, and a POST
\* /api/projects whose name equals an existing project's name is answered 400
\* and leaves the project collection unchanged.
C4_ProjectNamesUnique ==
    /\ []NamesUnique(projects)
    /\ [][\A body \in ProjectBodies :
            (/\ PostProjectValid(body)
             /\ body.name \in ProjectNames(projects)
             /\ PostProject(body))
            => /\ resp'.status = 400
               /\ projects' = projects]_vars

\* C6: every stored entry has a duration >= 0, and a completed entry's
\* duration is endTime - startTime (taken in milliseconds or in whole
\* seconds, whichever unit the entry was written in).
C6_DurationIsSpan ==
    \A i \in DOMAIN entries :
        LET e == entries[i]
        IN  /\ e.duration >= 0
            /\ e.endTime # NULL =>
                   \/ e.duration = e.endTime - e.startTime
                   \/ e.duration = ElapsedSeconds(e.startTime, e.endTime)

\* C7: for every stored entry, status = running exactly when endTime is null,
\* and status = completed exactly when endTime is present.
C7_StatusMatchesEndTime ==
    \A i \in DOMAIN entries :
        LET e == entries[i]
        IN  /\ e.status \in {"running", "completed"}
            /\ e.status = "running" <=> e.endTime = NULL

\* C10: POST /api/time-entries without a projectId or without a startTime is
\* answered 400 with an error body, and the store is left as it was.
C10_InvalidEntryRejected ==
    [][\A body \in EntryBodies(now) :
          (~PostTimeEntryValid(body) /\ LegacyPostTimeEntry(body))
          => /\ resp'.status = 400
             /\ resp'.body = "error"
             /\ storage' = storage]_vars

Ids(es) == {es[i].id : i \in DOMAIN es}

\* es2 is es with the entry at i replaced by one that carries the patch.
PatchedAt(es, es2, i, updates) ==
    /\ Len(es2) = Len(es)
    /\ \A k \in DOMAIN updates : Has(es2[i], k) /\ es2[i][k] = updates[k]
    /\ \A k \in DOMAIN es[i] \ DOMAIN updates : Has(es2[i], k) /\ es2[i][k] = es[i][k]
    /\ \A j \in DOMAIN es : j # i => es2[j] = es[j]

\* es2 is es without the entry at i, the others in their order.
RemovedAt(es, es2, i) ==
    /\ Len(es2) = Len(es) - 1
    /\ \A j \in DOMAIN es2 : es2[j] = IF j < i THEN es[j] ELSE es[j + 1]

\* C11: PUT and DELETE /api/time-entries/:id with an id no entry has answer
\* 404 and leave the entries as they were; with an id an entry has, that one
\* entry is patched or removed and every other entry is unchanged.
C11_OnlyTheNamedEntry ==
    [][\A id \in IdInputs(entries) :
          /\ \A updates \in Updates(now) :
                 PutTimeEntry(id, updates) =>
                     IF id \notin Ids(entries)
                     THEN resp'.status = 404 /\ entries' = entries
                     ELSE /\ resp'.status = 200
                          /\ \E i \in DOMAIN entries :
                                 /\ entries[i].id = id
                                 /\ PatchedAt(entries, entries', i, updates)
          /\ DeleteTimeEntry(id) =>
                 IF id \notin Ids(entries)
                 THEN resp'.status = 404 /\ entries' = entries
                 ELSE /\ resp'.status = 200
                      /\ \E i \in DOMAIN entries :
                             /\ entries[i].id = id
                             /\ RemovedAt(entries, entries', i)]_vars

\* A PUT has patched the second of two stored entries.
C11_Witness ==
    /\ resp.op = "PUT time-entries" /\ resp.status = 200
    /\ Len(entries) = 2
    /\ entries[1].endTime = NULL /\ entries[2].endTime # NULL
    /\ entries[2].duration = 0 /\ entries[2].status = "running"

\* C17: on startup the default projects are seeded exactly when no project
\* exists: a store without projects (no store, or an empty project
\* collection) ends up with the default projects, and a store that holds a
\* project is left as it is.
C17_SeedsWhenNoProjects ==
    [][\A exists \in BOOLEAN :
          InitializeData(exists) =>
              IF ~exists \/ projects = <<>>
              THEN projects' = DefaultProjects
              ELSE projects' = projects]_vars

\* C18: a storage I/O failure during a request is answered 500 with an
\* error body, never with a success response for a mutation that was not
\* persisted.  (A failed read of a store that is still empty leaves no
\* trace, and is left out.)
C18_FaultIsReported ==
    [][\A readOk, writeOk \in BOOLEAN :
          LET body == [projectId |-> 1, startTime |-> now]
          IN  (/\ LegacyPostTimeEntryFault(body, readOk, writeOk)
               /\ ~LegacyPostTimeEntry(body))
              => resp'.status = 500 /\ resp'.body = "error"]_vars

\* ------------------------------------------- claims: the read routes

SameEntries(l, es) ==
    /\ Len(l) = Len(es)
    /\ \A i \in DOMAIN es : \E j \in DOMAIN l : l[j] = es[i]

\* C12: GET /api/time-entries returns all the stored entries ordered by
\* startTime, the most recent start first, whatever the order they were
\* created in (a back-dated entry included).
C12_NewestStartFirst ==
    [][GetTimeEntries =>
          /\ SameEntries(reply'.list, entries)
          /\ \A i, j \in DOMAIN reply'.list :
                 i < j => reply'.list[i].startTime >= reply'.list[j].startTime]_vars

RECURSIVE CompletedOnly(_)
CompletedOnly(es) ==
    IF es = <<>> THEN <<>>
    ELSE (IF Head(es).endTime # NULL THEN <<Head(es)>> ELSE <<>>)
         \o CompletedOnly(Tail(es))

\* C14: running entries contribute 0 to the today and week totals of GET
\* /api/stats: the totals are the sums over the completed entries only.
C14_RunningCountZero ==
    [][\A tz \in TzOffsets :
          GetStats(tz) =>
              /\ reply'.totalTimeToday =
                     SumDuration(CompletedOnly(TodayEntries(entries, now, tz)))
              /\ reply'.totalTimeWeek =
                     SumDuration(CompletedOnly(WeekEntries(entries, now, tz)))]_vars

\* C15: one duration unit across the system.  The web client commits
\* duration = elapsed, milliseconds; an entry that stop-timer or start-timer
\* closes has duration = endTime - startTime in that unit, and the today
\* total of the stats counts the entry with that duration.
C15_OneDurationUnit ==
    [][\A i \in DOMAIN entries :
          (/\ entries[i].endTime = NULL
           /\ StopTimer \/ \E body \in TimerBodies : StartTimer(body)
           /\ entries'[i].endTime # NULL)
          => LET e == entries'[i]
                 span == e.endTime - e.startTime
             IN  /\ e.duration = span
                 /\ \A tz \in TzOffsets :
                        LocalDate(e.startTime, tz) = LocalDate(now, tz) =>
                            Stats(projects, entries', now, tz).totalTimeToday =
                                span + Stats(projects, RemoveAt(entries, i),
                                             now, tz).totalTimeToday]_vars

\* ------------------------------------------- claims: the sqlite server

\* The rows that started on the local calendar day of t.
StartedToday(rows, t, tz) ==
    {i \in DOMAIN rows : LocalDate(rows[i].start_time, tz) = LocalDate(t, tz)}

RECURSIVE TotalOf(_, _)
TotalOf(rows, sel) ==
    IF sel = {} THEN 0
    ELSE LET i == CHOOSE k \in sel : TRUE
         IN  Or0(rows[i].duration) + TotalOf(rows, sel \ {i})

\* C13: the today total of the stats is the sum of duration over exactly the
\* entries whose startTime falls on the local calendar date of now, wherever
\* they ended.
C13_TodayByLocalStartDate ==
    [][\A tz \in TzOffsets :
          SqlGetStats(tz) =>
              reply'.today =
                  TotalOf(db.time_entries, StartedToday(db.time_entries, now, tz))]_vars

CompletedToday(rows, t, tz, project) ==
    {i \in StartedToday(rows, t, tz) :
        rows[i].end_time # NULL /\ rows[i].project_id = project}

\* C19: projectBreakdown has one row for each project with a completed entry
\* started today and no other row; a row's total is the sum of duration of
\* the project's completed entries started today; the rows are in descending
\* order of total.
C19_BreakdownOfCompletedToday ==
    [][\A tz \in TzOffsets :
          SqlGetStats(tz) =>
              LET rows == reply'.projectBreakdown
                  es == db.time_entries
                  with == {p \in DOMAIN db.projects :
                              CompletedToday(es, now, tz, db.projects[p].id) # {}}
              IN  /\ Len(rows) = Cardinality(with)
                  /\ \A p \in with : \E k \in DOMAIN rows :
                         /\ rows[k].name = db.projects[p].name
                         /\ rows[k].total_time =
                                TotalOf(es, CompletedToday(es, now, tz, db.projects[p].id))
                  /\ \A i, j \in DOMAIN rows :
                         i < j => rows[i].total_time >= rows[j].total_time]_vars

\* What handling request r alone, from read to write, makes of the array es.
Serial(r, es) == HandlerWrite(r, es)

BothWrote ==
    /\ inflight = {}
    /\ Len(batch.reqs) = 2
    /\ \A i \in 1..2 : batch.reqs[i].op # "reset" /\ batch.reqs[i].outcome = "ok"

\* C8: when two mutating requests overlapped, the entries are what handling
\* them one after the other, in one of the two orders, gives (no update is
\* lost), and two overlapping start-timer calls leave at most one running entry.
C8_Serialized ==
    BothWrote =>
        LET r1 == batch.reqs[1]
            r2 == batch.reqs[2]
        IN  /\ entries \in {Serial(r2, Serial(r1, batch.base.entries)),
                             Serial(r1, Serial(r2, batch.base.entries))}
            /\ (r1.op = "start-timer" /\ r2.op = "start-timer")
                   => Cardinality(RunningEntries(entries)) <= 1

Alone == Len(batch.reqs) = 1

ResetStore == [projects |-> DefaultProjects, entries |-> <<>>]

\* C9: a request is atomic.  While it is the only one being handled, the
\* store another request would read is the store from before it or the store
\* with its whole effect, and if one of its store steps failed it leaves the
\* store as it was before the request (reset does not leave the projects
\* reset to the defaults while the old entries remain).
C9_Atomic ==
    /\ []((Alone /\ inflight # {}) =>
             \/ Store = batch.base
             \/ batch.reqs[1].op = "reset" /\ Store = ResetStore)
    /\ [][\A r \in inflight :
            (/\ Alone
             /\ \/ ConcWrite(r, FALSE)
                \/ ConcResetProjects(r, FALSE)
                \/ ConcResetEntries(r, FALSE))
            => [projects |-> projects', entries |-> entries'] = batch.base]_vars

\* --------------------------------------------------- claims: the client

\* C5: the duration a stop commits is the wall-clock time the client spent
\* Running since the session's start, paused intervals excluded, wherever the
\* one-second ticks fell.
C5_CommitsRunningTime ==
    [][(elapsed > 0 /\ stopTimer) => stops'[Len(stops')].duration = runSpan]_vars

TimerIsReset(e, st, project, running, paused) ==
    /\ e = 0
    /\ st = NULL
    /\ project = NULL
    /\ ~running
    /\ ~paused

\* C16: a stop from Running or Paused commits a time entry to the API exactly
\* when elapsed > 0, and once the stop is over the local timer state is reset
\* (elapsed 0, startTime and currentProject null, neither running nor
\* paused), whether the commit succeeded or failed.
C16_StopCommitsAndResets ==
    [][/\ ((isRunning \/ isPaused) /\ stopTimer) =>
              /\ (stops' # stops) <=> elapsed > 0
              /\ stops' = stops =>
                     TimerIsReset(elapsed', startTime', currentProject',
                                  isRunning', isPaused')
       /\ \A ok \in BOOLEAN :
              stopTimerResume(ok) =>
                  TimerIsReset(elapsed', startTime', currentProject',
                               isRunning', isPaused')]_vars

\* C20: the tick is not the source of the committed duration: a stop from
\* Running, after some time has run, commits the duration computed from the
\* timestamps at the moment of the stop, now - startTime, whenever the ticks
\* fired (a tick that never fired included).
C20_DurationFromTimestamps ==
    [][(isRunning /\ startTime # NULL /\ now > startTime /\ stopTimer)
       => /\ Len(stops') = Len(stops) + 1
          /\ stops'[Len(stops')].duration = now - startTime]_vars

\* C21: pausing a running timer sets elapsed to now - startTime as of the
\* pause and cancels the periodic callback, so that nothing is scheduled
\* while the client is paused.
C21_PauseFreezesElapsed ==
    [][(isRunning /\ pauseTimer) =>
           /\ elapsed' = now - startTime
           /\ intervals' = {}]_vars

\* C22: resuming a paused timer at time t sets startTime to t minus the
\* frozen elapsed time and leaves elapsed and currentProject as they were,
\* whatever the selection has become; a tick of the running timer never
\* takes elapsed below the value it had, so the first tick after the resume
\* yields at least the frozen elapsed time.
C22_ResumeKeepsSession ==
    [][/\ (isPaused /\ startTimer) =>
              /\ startTime' = now - elapsed
              /\ elapsed' = elapsed
              /\ currentProject' = currentProject
              /\ isRunning' /\ ~isPaused'
       /\ \A i \in intervals : (isRunning /\ tick(i)) => elapsed' >= elapsed]_vars

\* A timer resumed after a pause of some length, with another project
\* selected than the one the session was started on.
C22_Witness ==
    /\ isRunning
    /\ elapsed > 0
    /\ elapsed = now - startTime
    /\ runSpan # now - startTime
    /\ currentProject # NULL
    /\ selected # NULL
    /\ selected # currentProject

\* C23: a press of start with no project selected is rejected: the flags,
\* startTime, elapsed and currentProject stay as they were (an idle client
\* stays idle) and no periodic tick is scheduled.
C23_StartNeedsProject ==
    [][(selected = NULL /\ (startTimer \/ startTimerRejected)) =>
           UNCHANGED <<appVars, intervals>>]_vars

\* An idle client that never ran and has shown the rejection.
C23_Witness ==
    /\ alerted = "Please select a project first!"
    /\ timer = NULL
    /\ ~isRunning /\ ~isPaused
    /\ startTime = NULL /\ elapsed = 0 /\ currentProject = NULL
    /\ intervals = {}

\* C24: the periodic tick is bound to the Running state: at most one tick
\* callback is scheduled, and none while the client is idle or paused.
C24_TickOnlyWhileRunning ==
    /\ Cardinality(intervals) <= 1
    /\ ~isRunning => intervals = {}

\* C30: a client timing session, from a fresh start to the stop that follows,
\* sends the API at most one time entry, also when stop is pressed again
\* while the first stop awaits its save request.
C30_OneCommitPerSession == commits <= 1

\* C25: entry ids and project ids are unique within the store, also after two
\* creations within the same clock millisecond.
C25_IdsUnique ==
    /\ Cardinality(Ids(storage.timeEntries)) = Len(storage.timeEntries)
    /\ Cardinality(Ids(storage.projects)) = Len(storage.projects)

\* C26: extension status reports an active timer exactly when the store holds
\* an entry without endTime, the activeTimer it returns is such an entry, and
\* a status request right after a successful start-timer returns the entry
\* that start-timer opened.
C26_StatusIsTheOpenEntry ==
    [][GetExtensionStatus =>
           LET active == reply'.activeTimer
           IN  /\ (active # <<>>) <=> (OpenEntries(entries) # {})
               /\ active # <<>> =>
                      \E i \in OpenEntries(entries) : active[1] = entries[i]
               /\ (resp.op = "start-timer" /\ resp.status = 200) =>
                      active = <<entries[Len(entries)]>>]_vars

C28_StopLeavesNoneRunning ==
    (resp.op = "stop-timer" /\ resp.status = 200) =>
        /\ RunningEntries(entries) = {}
        /\ OpenEntries(entries) = {}

\* C29: a read-only request (GET time-entries, GET stats) leaves the persisted
\* projects and entries as they were, also when the backing file cannot be
\* read or parsed at the time of the request.
C29_ReadsLeaveStore ==
    [][(\/ GetTimeEntries
        \/ \E writeOk \in BOOLEAN : GetTimeEntriesFault(writeOk)
        \/ \E tz \in TzOffsets : GetStats(tz)) =>
           UNCHANGED <<projects, entries>>]_vars

\* C31: whenever the client is Running or Paused, currentProject and startTime
\* are set, under every interleaving of the user's actions with the rest of a
\* stop that awaits its save request.
C31_SessionFieldsSet ==
    (isRunning \/ isPaused) => (currentProject # NULL /\ startTime # NULL)

Idle == ~isRunning /\ ~isPaused /\ elapsed = 0 /\ intervals = {}

\* C32: every stop eventually brings the client to Idle (not running, not
\* paused, elapsed 0, no tick scheduled), given that the save request it sent
\* is answered or fails, whatever the user does while the stop is pending.
\* A user who starts a session anew while the stop is pending may keep it
\* running for as long as they like, so the property is checked in the form
\* that grants this: a pending stop leads to Idle or to a running timer.
C32_StopReachesIdle == (stops # <<>>) ~> (Idle \/ isRunning)

\* Every duration the sqlite store holds is absent or not negative.
SqlDurationsNonNegative(d) ==
    \A i \in DOMAIN d.time_entries :
        d.time_entries[i].duration = NULL \/ d.time_entries[i].duration >= 0

\* C33: for every store whose durations are not negative and every value of
\* now, the stats satisfy todayTotal <= weekTotal.
C33_TodayWithinWeek ==
    [][\A tz \in TzOffsets :
           (SqlDurationsNonNegative(db) /\ SqlGetStats(tz)) =>
               reply'.today <= reply'.week]_vars

====
